---- MODULE Spec2Model ----
(***************************************************************************)
(* Model of the schema-driven harmonize / validate pipeline of             *)
(* public/code/data-validation-pipeline-w-yaml-polars-py.py:               *)
(* DataHarmonizer.harmonize (alias renaming, then type casting with        *)
(* failure accounting) and DataValidator.validate (existence, type, range, *)
(* allow / deny list and regex checks), run in that order by main().       *)
(*                                                                         *)
(* A table is a function from its column names to [dtype, vals]; the order *)
(* of the columns of a table is not modelled (no statement below reads     *)
(* it).  A schema is a sequence of [name, props] in declaration order, the *)
(* props a record that holds exactly the keys the YAML document gives.     *)
(***************************************************************************)
EXTENDS Integers, Sequences, FiniteSets, TLC

VARIABLES
    schema,       \* self.schema, shared by harmonizer and validator
    df,           \* main's df: the table handed to harmonize
    hdf,          \* harmonize's local df (renamed, then cast column by column)
    df_cols,      \* harmonize's df_cols = set(df.columns)
    rename_map,   \* harmonize's rename_map (alias -> canonical name)
    report_logs,  \* harmonize's report_logs
    df_clean,     \* main's df_clean: the table harmonize returned
    errors,       \* validate's errors
    pc,           \* the statement the run is at
    i             \* index of the schema item the current loop is at

vars == <<schema, df, hdf, df_cols, rename_map, report_logs, df_clean, errors, pc, i>>

(***************************************************************************)
(* Bounds of the model.                                                    *)
(***************************************************************************)
MaxCols == 2        \* schema columns of the renaming runs
MaxAliases == 2     \* aliases a schema column declares
NRows == 2          \* rows of a table
MaxInt == 12        \* integers are -MaxInt .. MaxInt

NameSeq == <<"a", "b", "c">>
Names == {NameSeq[n] : n \in 1..Len(NameSeq)}

Min(x, y) == IF x < y THEN x ELSE y

(***************************************************************************)
(* Cells.  k is the kind of the value; i carries an integer, a boolean     *)
(* (0 / 1), a date (days) or a float counted in halves (15 is 7.5); s      *)
(* carries a string.                                                       *)
(***************************************************************************)
Null == [k |-> "null", i |-> 0, s |-> ""]
IntV(n) == [k |-> "int", i |-> n, s |-> ""]
FltV(h) == [k |-> "flt", i |-> h, s |-> ""]
NaN == [k |-> "nan", i |-> 0, s |-> ""]
BoolV(b) == [k |-> "bool", i |-> IF b THEN 1 ELSE 0, s |-> ""]
DateV(d) == [k |-> "date", i |-> d, s |-> ""]
StrV(t) == [k |-> "str", i |-> 0, s |-> t]

(***************************************************************************)
(* Rendering and parsing of values, as the casts from and to pl.String do  *)
(* them.                                                                   *)
(***************************************************************************)
Digit(d) == CASE d = 0 -> "0" [] d = 1 -> "1" [] d = 2 -> "2" [] d = 3 -> "3"
              [] d = 4 -> "4" [] d = 5 -> "5" [] d = 6 -> "6" [] d = 7 -> "7"
              [] d = 8 -> "8" [] OTHER -> "9"

RECURSIVE NatStr(_)
NatStr(n) == IF n < 10 THEN Digit(n) ELSE NatStr(n \div 10) \o Digit(n % 10)

IntStr(n) == IF n < 0 THEN "-" \o NatStr(-n) ELSE NatStr(n)

\* a float of h halves: 15 is "7.5", 14 is "7.0", -3 is "-1.5"
FltStr(h) ==
    LET a == IF h < 0 THEN -h ELSE h
    IN  (IF h < 0 THEN "-" ELSE "") \o NatStr(a \div 2)
            \o (IF a % 2 = 1 THEN ".5" ELSE ".0")

\* day d of January 2020, d in 1..9
DateStr(d) == "2020-01-0" \o Digit(d)

ParseInt(t) ==
    IF \E n \in -MaxInt..MaxInt : IntStr(n) = t
    THEN IntV(CHOOSE n \in -MaxInt..MaxInt : IntStr(n) = t)
    ELSE Null

ParseFlt(t) ==
    IF \E n \in -MaxInt..MaxInt : IntStr(n) = t
    THEN FltV(2 * (CHOOSE n \in -MaxInt..MaxInt : IntStr(n) = t))
    ELSE IF \E h \in -2*MaxInt..2*MaxInt : FltStr(h) = t
    THEN FltV(CHOOSE h \in -2*MaxInt..2*MaxInt : FltStr(h) = t)
    ELSE Null

ParseDate(t) ==
    IF \E d \in 1..9 : DateStr(d) = t
    THEN DateV(CHOOSE d \in 1..9 : DateStr(d) = t)
    ELSE Null

\* truncation toward zero of a float of h halves
Trunc(h) == IF h < 0 THEN -((-h) \div 2) ELSE h \div 2

(***************************************************************************)
(* pl.col(col).cast(target, strict=False) on one cell of a column of       *)
(* physical type from: a null stays null and a value that has no           *)
(* representation in the target becomes null.                              *)
(***************************************************************************)
CastCell(c, from, to) ==
    IF c.k = "null" THEN Null
    ELSE IF from = to THEN c
    ELSE CASE to = "String" ->
                 (CASE c.k = "int" -> StrV(IntStr(c.i))
                    [] c.k = "flt" -> StrV(FltStr(c.i))
                    [] c.k = "nan" -> StrV("NaN")
                    [] c.k = "bool" -> StrV(IF c.i = 1 THEN "true" ELSE "false")
                    [] c.k = "date" -> StrV(DateStr(c.i))
                    [] OTHER -> c)
           [] to = "Int64" ->
                 (CASE c.k = "str" -> ParseInt(c.s)
                    [] c.k = "flt" -> IntV(Trunc(c.i))
                    [] c.k = "nan" -> Null
                    [] c.k = "bool" -> IntV(c.i)
                    [] OTHER -> c)
           [] to = "Float64" ->
                 (CASE c.k = "str" -> ParseFlt(c.s)
                    [] c.k = "int" -> FltV(2 * c.i)
                    [] c.k = "bool" -> FltV(2 * c.i)
                    [] OTHER -> c)
           [] to = "Boolean" ->
                 (CASE c.k = "int" -> BoolV(c.i # 0)
                    [] OTHER -> c)
           [] to = "Date" ->
                 (CASE c.k = "str" -> ParseDate(c.s)
                    [] OTHER -> c)
           [] OTHER -> c

\* the casts the model's tables ask for: those CastCell gives a meaning
SupportedCasts ==
    {<<"String", "Int64">>, <<"String", "Float64">>, <<"String", "Date">>,
     <<"Int64", "String">>, <<"Int64", "Float64">>, <<"Int64", "Boolean">>,
     <<"Int32", "String">>, <<"Int32", "Int64">>, <<"Int32", "Float64">>,
     <<"Int32", "Boolean">>,
     <<"Float64", "String">>, <<"Float64", "Int64">>,
     <<"Boolean", "String">>, <<"Boolean", "Int64">>, <<"Boolean", "Float64">>,
     <<"Date", "String">>}

\* df.with_columns(pl.col(col).cast(target, strict=False))
CastColumn(t, col, to) ==
    [t EXCEPT ![col] =
        [dtype |-> to,
         vals |-> [r \in DOMAIN t[col].vals |-> CastCell(t[col].vals[r], t[col].dtype, to)]]]

\* df[col].null_count()
null_count(t, col) == Cardinality({r \in DOMAIN t[col].vals : t[col].vals[r].k = "null"})

(***************************************************************************)
(* DataHarmonizer                                                          *)
(***************************************************************************)
\* self.type_map
type_map ==
    [string |-> "String", float |-> "Float64", integer |-> "Int64",
     date |-> "Date", boolean |-> "Boolean"]

\* props.get(key, default)
Get(props, key, default) == IF key \in DOMAIN props THEN props[key] ELSE default

\* self.type_map.get(target_type_str), "None" when there is no such key
TargetType(props) ==
    LET target_type_str == Get(props, "type", "None")
    IN  IF target_type_str \in DOMAIN type_map THEN type_map[target_type_str] ELSE "None"

\* NeedsRename with the test of the canonical name dropped
NeedsRenameAlways(col, cols) == TRUE

\* if col not in df_cols
NeedsRename(col, cols) == col \notin cols

\* FirstAliasIdx without the break: the last alias the table holds wins
LastAliasIdx(aliases, cols) ==
    IF \E n \in 1..Len(aliases) : aliases[n] \in cols
    THEN CHOOSE n \in 1..Len(aliases) :
            /\ aliases[n] \in cols
            /\ \A m \in (n + 1)..Len(aliases) : aliases[m] \notin cols
    ELSE 0

\* the position of the alias the inner loop breaks at, 0 when it never breaks
FirstAliasIdx(aliases, cols) ==
    IF \E n \in 1..Len(aliases) : aliases[n] \in cols
    THEN CHOOSE n \in 1..Len(aliases) :
            /\ aliases[n] \in cols
            /\ \A m \in 1..(n - 1) : aliases[m] \notin cols
    ELSE 0

\* rename_map[alias] = col
MapPut(m, key, val) == [n \in DOMAIN m \cup {key} |-> IF n = key THEN val ELSE m[n]]

\* the name df.rename(mapping) gives column n
NewName(mapping, n) == IF n \in DOMAIN mapping THEN mapping[n] ELSE n

\* df.rename(mapping): polars raises when two columns would share a name
RenameRaises(t, mapping) ==
    \E n1, n2 \in DOMAIN t : n1 # n2 /\ NewName(mapping, n1) = NewName(mapping, n2)

Rename(t, mapping) ==
    [c \in {NewName(mapping, n) : n \in DOMAIN t} |->
        t[CHOOSE n \in DOMAIN t : NewName(mapping, n) = c]]

\* NeedsCast with the comparison of the types dropped
NeedsCastAlways(current_type, target_pl_type) == TRUE

\* if current_type != target_pl_type
NeedsCast(current_type, target_pl_type) == current_type # target_pl_type

\* FailedRows counting the nulls the column already held
FailedRowsNoBaseline(nulls_before, nulls_after) == nulls_after

\* failed_rows = nulls_after - nulls_before
FailedRows(nulls_before, nulls_after) == nulls_after - nulls_before

RenameEntry(col, alias) ==
    [action |-> "Rename", column |-> col, alias |-> alias, rows |-> 0,
     from |-> "", to |-> ""]

CastFailEntry(col, failed_rows, target_type_str) ==
    [action |-> "Cast Fail", column |-> col, alias |-> "", rows |-> failed_rows,
     from |-> "", to |-> target_type_str]

CastSuccessEntry(col, current_type, target_type_str) ==
    [action |-> "Cast Success", column |-> col, alias |-> "", rows |-> 0,
     from |-> current_type, to |-> target_type_str]

\* one iteration of the renaming loop: the schema item i, its aliases scanned
\* up to the first one the table holds
RenameScan ==
    /\ pc = "rename_scan"
    /\ i <= Len(schema)
    /\ LET col == schema[i].name
           aliases == Get(schema[i].props, "aliases", <<>>)
           hit == FirstAliasIdx(aliases, df_cols)
       IN  IF NeedsRename(col, df_cols) /\ hit > 0
           THEN /\ rename_map' = MapPut(rename_map, aliases[hit], col)
                /\ report_logs' = Append(report_logs, RenameEntry(col, aliases[hit]))
           ELSE UNCHANGED <<rename_map, report_logs>>
    /\ i' = IF i = Len(schema) THEN 1 ELSE i + 1
    /\ pc' = IF i = Len(schema) THEN "rename_apply" ELSE pc
    /\ UNCHANGED <<schema, df, hdf, df_cols, df_clean, errors>>

\* if rename_map: df = df.rename(rename_map)
ApplyRename ==
    /\ pc = "rename_apply"
    /\ IF DOMAIN rename_map = {}
       THEN /\ hdf' = hdf
            /\ pc' = "cast"
       ELSE IF RenameRaises(hdf, rename_map)
       THEN /\ hdf' = hdf
            /\ pc' = "raised"
       ELSE /\ hdf' = Rename(hdf, rename_map)
            /\ pc' = "cast"
    /\ UNCHANGED <<schema, df, df_cols, rename_map, report_logs, df_clean, errors, i>>

\* one iteration of the casting loop: the schema item i
CastStep ==
    /\ pc = "cast"
    /\ i <= Len(schema)
    /\ LET col == schema[i].name
           props == schema[i].props
           target_type_str == Get(props, "type", "None")
           target_pl_type == TargetType(props)
       IN  IF col \in DOMAIN hdf /\ target_pl_type # "None"
                /\ NeedsCast(hdf[col].dtype, target_pl_type)
           THEN LET current_type == hdf[col].dtype
                    nulls_before == null_count(hdf, col)
                    cast == CastColumn(hdf, col, target_pl_type)
                    nulls_after == null_count(cast, col)
                    failed_rows == FailedRows(nulls_before, nulls_after)
                IN  /\ hdf' = cast
                    /\ report_logs' =
                         IF failed_rows > 0
                         THEN Append(report_logs,
                                     CastFailEntry(col, failed_rows, target_type_str))
                         ELSE Append(report_logs,
                                     CastSuccessEntry(col, current_type, target_type_str))
           ELSE UNCHANGED <<hdf, report_logs>>
    /\ i' = IF i = Len(schema) THEN 1 ELSE i + 1
    /\ pc' = IF i = Len(schema) THEN "h_return" ELSE pc
    /\ UNCHANGED <<schema, df, df_cols, rename_map, df_clean, errors>>

\* return df, pl.DataFrame(report_logs, ...), received by main as df_clean
HarmonizeReturn ==
    /\ pc = "h_return"
    /\ df_clean' = hdf
    /\ pc' = "validate"
    /\ UNCHANGED <<schema, df, hdf, df_cols, rename_map, report_logs, errors, i>>

(***************************************************************************)
(* DataValidator                                                           *)
(***************************************************************************)
\* polars_dtypes with the 64-bit types forgotten
polars_dtypes_narrow ==
    [string |-> {"String", "Categorical", "Enum"},
     float |-> {"Float32", "Decimal"},
     integer |-> {"Int8", "Int16", "Int32", "UInt8", "UInt16", "UInt32"},
     date |-> {"Date", "Datetime", "Duration", "Time"},
     boolean |-> {"Boolean"}]

\* self.polars_dtypes
polars_dtypes ==
    [string |-> {"String", "Categorical", "Enum"},
     float |-> {"Float32", "Float64", "Decimal"},
     integer |-> {"Int8", "Int16", "Int32", "Int64",
                  "UInt8", "UInt16", "UInt32", "UInt64"},
     date |-> {"Date", "Datetime", "Duration", "Time"},
     boolean |-> {"Boolean"}]

\* the strings the model's tables and lists hold, and the patterns of its schemas
\* with the strings each matches (str.contains)
DigitsPattern == "^[0-9]+$"
LetterPattern == "[a-z]"
StrContains(t, pattern) ==
    CASE pattern = DigitsPattern -> \E n \in 0..MaxInt : NatStr(n) = t
      [] pattern = LetterPattern -> t \in {"x", "true", "false", "NaN"}
      [] OTHER -> FALSE

\* one row of errors; description is the text of the f-string, the numbers and
\* names it interpolates are count, low, high, expected and got
Finding(col, check, description, count, na, vals, expected, got) ==
    [variable |-> col, check |-> check, description |-> description, count |-> count,
     examples_na |-> na, example_vals |-> vals,
     more |-> IF Cardinality(vals) > 3 THEN Cardinality(vals) - 3 ELSE 0,
     expected |-> expected, got |-> got]

\* _get_example_msg reads the unique non-null values of the invalid rows; which
\* three of them it prints is the backend's iteration order
ExampleVals(t, col, rows) == {t[col].vals[r] : r \in rows} \ {Null}

Rows(t, col) == DOMAIN t[col].vals

\* OutOfRange with exclusive bounds
OutOfRangeExclusive(c, low, high) ==
    CASE c.k = "int" -> c.i <= low \/ c.i >= high
      [] c.k = "bool" -> c.i <= low \/ c.i >= high
      [] c.k = "flt" -> c.i <= 2 * low \/ c.i >= 2 * high
      [] c.k = "nan" -> TRUE
      [] OTHER -> FALSE

\* (col_expr < low) | (col_expr > high) on one cell: a null compares to null and
\* the filter drops it; NaN orders above every number
OutOfRange(c, low, high) ==
    CASE c.k = "int" -> c.i < low \/ c.i > high
      [] c.k = "bool" -> c.i < low \/ c.i > high
      [] c.k = "flt" -> c.i < 2 * low \/ c.i > 2 * high
      [] c.k = "nan" -> TRUE
      [] OTHER -> FALSE

\* df.filter((col_expr < low) | (col_expr > high)), as the rows it keeps
RangeInvalid(t, col, low, high) ==
    {r \in Rows(t, col) : OutOfRange(t[col].vals[r], low, high)}

\* comparing a text or date column with a number raises in polars
RangeRaises(t, col) == t[col].dtype \in {"String", "Date"}

\* any(isinstance(x, str) for x in values) and actual_dtype != pl.String
CastsToString(values, actual_dtype) ==
    /\ \E n \in 1..Len(values) : values[n].k = "str"
    /\ actual_dtype # "String"

\* check_expr evaluated on one cell
CheckCell(c, values, actual_dtype) ==
    IF CastsToString(values, actual_dtype)
    THEN CastCell(c, actual_dtype, "String")
    ELSE c

\* check_expr.is_in(values) on one cell; a null is neither in nor out
IsIn(c, values) == c.k # "null" /\ \E n \in 1..Len(values) : values[n] = c

\* df.filter(~check_expr.is_in(allowed))
AllowedInvalid(t, col, allowed) ==
    {r \in Rows(t, col) :
        LET c == CheckCell(t[col].vals[r], allowed, t[col].dtype)
        IN  c.k # "null" /\ ~IsIn(c, allowed)}

\* df.filter(check_expr.is_in(forbidden))
ForbiddenInvalid(t, col, forbidden) ==
    {r \in Rows(t, col) :
        IsIn(CheckCell(t[col].vals[r], forbidden, t[col].dtype), forbidden)}

\* df.filter(~col_expr.str.contains(pattern))
RegexInvalid(t, col, pattern) ==
    {r \in Rows(t, col) :
        t[col].vals[r].k = "str" /\ ~StrContains(t[col].vals[r].s, pattern)}

\* ExistenceFindings with optional ignored
ExistenceFindingsIgnoreOptional(col, props) ==
    <<[variable |-> col, check |-> "Existence", description |-> "Column not found",
       count |-> 0, examples_na |-> TRUE, example_vals |-> {}, more |-> 0,
       expected |-> "", got |-> ""]>>

ExistenceFindings(col, props) ==
    IF ~Get(props, "optional", FALSE)
    THEN <<Finding(col, "Existence", "Column not found", 0, TRUE, {}, "", "")>>
    ELSE <<>>

TypeFindings(t, col, props) ==
    LET expected_key == Get(props, "type", "None")
        actual_dtype == t[col].dtype
    IN  IF expected_key \in DOMAIN polars_dtypes
            /\ actual_dtype \notin polars_dtypes[expected_key]
        THEN <<Finding(col, "Type", "Expected {expected_key}, got {actual_dtype}", 0, TRUE, {}, expected_key, actual_dtype)>>
        ELSE <<>>

RangeFindings(t, col, props) ==
    IF "range" \in DOMAIN props
    THEN LET invalid == RangeInvalid(t, col, props.range[1], props.range[2])
         IN  IF invalid # {}
             THEN <<Finding(col, "Range", "{len(invalid)} rows outside [{low}, {high}]",
                            Cardinality(invalid), FALSE,
                            ExampleVals(t, col, invalid), "", "")>>
             ELSE <<>>
    ELSE <<>>

AllowedFindings(t, col, props) ==
    IF "allowed_value" \in DOMAIN props
    THEN LET invalid == AllowedInvalid(t, col, props.allowed_value)
         IN  IF invalid # {}
             THEN <<Finding(col, "Allowed Values", "{len(invalid)} rows have invalid values",
                            Cardinality(invalid), FALSE,
                            ExampleVals(t, col, invalid), "", "")>>
             ELSE <<>>
    ELSE <<>>

ForbiddenFindings(t, col, props) ==
    IF "not_allowed_value" \in DOMAIN props
    THEN LET invalid == ForbiddenInvalid(t, col, props.not_allowed_value)
         IN  IF invalid # {}
             THEN <<Finding(col, "Forbidden Values", "{len(invalid)} rows found in blacklist",
                            Cardinality(invalid), FALSE,
                            ExampleVals(t, col, invalid), "", "")>>
             ELSE <<>>
    ELSE <<>>

RegexFindings(t, col, props) ==
    IF "regex" \in DOMAIN props /\ t[col].dtype = "String"
    THEN LET invalid == RegexInvalid(t, col, props.regex)
         IN  IF invalid # {}
             THEN <<Finding(col, "Regex", "{len(invalid)} rows mismatch pattern '{pattern}'",
                            Cardinality(invalid), FALSE,
                            ExampleVals(t, col, invalid), "", "")>>
             ELSE <<>>
    ELSE <<>>

\* ColumnFindings with the deny list checked before the allow list
ColumnFindingsSwapped(t, col, props) ==
    IF col \notin DOMAIN t
    THEN ExistenceFindings(col, props)
    ELSE TypeFindings(t, col, props) \o RangeFindings(t, col, props)
            \o ForbiddenFindings(t, col, props) \o AllowedFindings(t, col, props)
            \o RegexFindings(t, col, props)

\* what one iteration of validate's loop appends to errors
ColumnFindings(t, col, props) ==
    IF col \notin DOMAIN t
    THEN ExistenceFindings(col, props)
    ELSE TypeFindings(t, col, props) \o RangeFindings(t, col, props)
            \o AllowedFindings(t, col, props) \o ForbiddenFindings(t, col, props)
            \o RegexFindings(t, col, props)

\* one iteration of validate's loop: the schema item i, all its checks
ValidateColumn ==
    /\ pc = "validate"
    /\ i <= Len(schema)
    /\ LET col == schema[i].name
           props == schema[i].props
       IN  IF col \in DOMAIN df_clean /\ "range" \in DOMAIN props
                /\ RangeRaises(df_clean, col)
           THEN /\ errors' = errors \o TypeFindings(df_clean, col, props)
                /\ pc' = "raised"
                /\ i' = i
           ELSE /\ errors' = errors \o ColumnFindings(df_clean, col, props)
                /\ pc' = IF i = Len(schema) THEN "done" ELSE pc
                /\ i' = IF i = Len(schema) THEN i ELSE i + 1
    /\ UNCHANGED <<schema, df, hdf, df_cols, rename_map, report_logs, df_clean>>

(***************************************************************************)
(* The runs.  A run is drawn as one choice per schema column: the props    *)
(* the schema declares for it, where the table holds it (under its         *)
(* canonical name, under its first alias, or not at all) and the column    *)
(* the table holds.  Schema column k is named NameSeq[k].                  *)
(***************************************************************************)
NoContent == [dtype |-> "String", vals |-> <<>>]

Choice(props, src, content) == [props |-> props, src |-> src, content |-> content]

BuildSchema(ch) == [k \in DOMAIN ch |-> [name |-> NameSeq[k], props |-> ch[k].props]]

TableName(ch, k) == IF ch[k].src = "alias" THEN ch[k].props.aliases[1] ELSE NameSeq[k]

BuildTable(ch) ==
    LET present == {k \in DOMAIN ch : ch[k].src # "absent"}
    IN  [n \in {TableName(ch, k) : k \in present} |->
            ch[CHOOSE k \in present : TableName(ch, k) = n].content]

\* the state at the entry of harmonize(df), schema loaded
HarmonizeEntry(sch, t) ==
    /\ schema = sch
    /\ df = t
    /\ hdf = t
    /\ df_cols = DOMAIN t
    /\ rename_map = <<>>
    /\ report_logs = <<>>
    /\ df_clean = <<>>
    /\ errors = <<>>
    /\ pc = "rename_scan"
    /\ i = 1

\* the state at the entry of validate(df), schema loaded
ValidateEntry(sch, t) ==
    /\ schema = sch
    /\ df = t
    /\ hdf = t
    /\ df_cols = DOMAIN t
    /\ rename_map = <<>>
    /\ report_logs = <<>>
    /\ df_clean = t
    /\ errors = <<>>
    /\ pc = "validate"
    /\ i = 1

(* Renaming runs: every schema of up to MaxCols columns, each with no      *)
(* aliases key or a list of up to MaxAliases distinct names, against every *)
(* table over Names; a column holds its own original name in every row, so *)
(* that its data can be told from any other column's.                      *)
AliasLists ==
    {al \in UNION {[1..n -> Names] : n \in 0..MaxAliases} :
        \A m, n \in DOMAIN al : m # n => al[m] # al[n]}

RenameProps == {<<>>} \cup {[aliases |-> al] : al \in AliasLists}

Tagged(n) == [dtype |-> "String", vals |-> [r \in 1..NRows |-> StrV(n)]]

RenameSchemas ==
    UNION {{[k \in 1..n |-> [name |-> NameSeq[k], props |-> ps[k]]] :
                ps \in [1..n -> RenameProps]} :
           n \in 1..Min(MaxCols, Len(NameSeq))}

RenameTables == {[n \in S |-> Tagged(n)] : S \in SUBSET Names}

InitRename == \E sch \in RenameSchemas, t \in RenameTables : HarmonizeEntry(sch, t)

(* Casting runs: one column over every type string, physical type and row  *)
(* values, alone or beside one of a few context columns.                   *)
TypeStrs == {"string", "float", "integer", "date", "boolean", "int8"}

DTypes == {"String", "Int64", "Int32", "Float64", "Boolean", "Date"}

CellsOf(dtype) ==
    CASE dtype = "String" -> {Null, StrV("7"), StrV("x"), StrV("2020-01-03")}
      [] dtype = "Int64" -> {Null, IntV(7), IntV(0)}
      [] dtype = "Int32" -> {Null, IntV(7)}
      [] dtype = "Float64" -> {Null, FltV(15), NaN}
      [] dtype = "Boolean" -> {Null, BoolV(TRUE)}
      [] OTHER -> {Null, DateV(3)}

Contents ==
    UNION {{[dtype |-> d, vals |-> v] : v \in [1..NRows -> CellsOf(d)]} : d \in DTypes}

\* rows 1.. hold first, then rest
Column(dtype, first, rest) ==
    [dtype |-> dtype, vals |-> [r \in 1..NRows |-> IF r = 1 THEN first ELSE rest]]

CastOk(props, content) ==
    \/ TargetType(props) = "None"
    \/ TargetType(props) = content.dtype
    \/ <<content.dtype, TargetType(props)>> \in SupportedCasts

CastProps == {<<>>} \cup {[type |-> ty] : ty \in TypeStrs}

CastAliasProps ==
    {[aliases |-> <<"c">>]} \cup {[type |-> ty, aliases |-> <<"c">>] : ty \in TypeStrs}

CastChoices ==
    {Choice(p, "absent", NoContent) : p \in CastProps}
    \cup {ch \in {Choice(p, "canonical", c) : p \in CastProps, c \in Contents} :
            CastOk(ch.props, ch.content)}
    \cup {ch \in {Choice(p, "alias", c) : p \in CastAliasProps, c \in Contents} :
            CastOk(ch.props, ch.content)}

CastContext ==
    {Choice([type |-> "integer"], "canonical", Column("String", StrV("x"), StrV("7"))),
     Choice([type |-> "string"], "canonical", Column("Int64", IntV(7), Null)),
     Choice([type |-> "integer"], "canonical", Column("Int64", IntV(7), IntV(0))),
     Choice([type |-> "float"], "absent", NoContent)}

WithContext(full, context) ==
    {<<x>> : x \in full}
    \cup {<<x, y>> : x \in full, y \in context}
    \cup {<<y, x>> : x \in full, y \in context}

InitCast ==
    \E ch \in WithContext(CastChoices, CastContext) :
        HarmonizeEntry(BuildSchema(ch), BuildTable(ch))

(* Validation runs.  Range runs: one numeric column over every row value   *)
(* around the bounds of its range.  Rule runs: up to two columns, each     *)
(* absent or holding one of a few columns, under every subset of the       *)
(* rules.                                                                  *)
Ranges == {<<0, 10>>, <<5, 5>>}

RangeCells(dtype) ==
    IF dtype = "Int64"
    THEN {Null, IntV(-1), IntV(0), IntV(5), IntV(10), IntV(11)}
    ELSE {Null, FltV(-1), FltV(0), FltV(20), FltV(21)}

RangeContents ==
    UNION {{[dtype |-> d, vals |-> v] : v \in [1..NRows -> RangeCells(d)]} :
           d \in {"Int64", "Float64"}}

RangeProps ==
    {[range |-> rg] : rg \in Ranges}
    \cup {[type |-> ty, range |-> rg] : ty \in {"integer", "float"}, rg \in Ranges}

RangeChoices == {Choice(p, "canonical", c) : p \in RangeProps, c \in RangeContents}

RangeContext ==
    {Choice([type |-> "integer", range |-> <<0, 10>>], "canonical",
            Column("Int64", IntV(11), IntV(5))),
     Choice([type |-> "string"], "absent", NoContent)}

\* props as the record holding the keys of keys, its values drawn from full
Restrict(full, keys) == [key \in keys |-> full[key]]

RuleValues(dtype) ==
    IF dtype = "String"
    THEN [allowed_value |-> <<StrV("7")>>, not_allowed_value |-> <<StrV("x")>>,
          regex |-> DigitsPattern]
    ELSE [range |-> <<0, 10>>, allowed_value |-> <<IntV(5)>>,
          not_allowed_value |-> <<StrV("11")>>, regex |-> DigitsPattern]

RuleContents ==
    {Column("Int64", IntV(11), IntV(5)), Column("Int64", IntV(5), Null),
     Column("String", StrV("x"), StrV("7")), Column("String", StrV("7"), Null)}

TypeProps == {<<>>, [type |-> "integer"], [type |-> "string"]}

RuleChoices ==
    {Choice(p @@ o, "absent", NoContent) :
        p \in {<<>>, RuleValues("Int64")},
        o \in {<<>>, [optional |-> TRUE], [optional |-> FALSE]}}
    \cup UNION {{Choice(Restrict(RuleValues(c.dtype), keys) @@ ty, "canonical", c) :
                    keys \in SUBSET DOMAIN RuleValues(c.dtype), ty \in TypeProps} :
                c \in RuleContents}

InitValidate ==
    \E ch \in WithContext(RangeChoices, RangeContext)
              \cup {<<x>> : x \in RuleChoices}
              \cup {<<x, y>> : x \in RuleChoices, y \in RuleChoices} :
        ValidateEntry(BuildSchema(ch), BuildTable(ch))

(***************************************************************************)
(* Specifications.                                                         *)
(***************************************************************************)
NextH == RenameScan \/ ApplyRename \/ CastStep \/ HarmonizeReturn

NextV == ValidateColumn

Next == NextH \/ NextV

\* main(): harmonize, then validate what it returned
Spec == InitCast /\ [][Next]_vars

\* harmonize alone, on the renaming runs
SpecRename == InitRename /\ [][NextH]_vars

\* validate alone, on any table
SpecValidate == InitValidate /\ [][NextV]_vars

(***************************************************************************)
(* Properties of the renaming step of harmonize (SpecRename).              *)
(***************************************************************************)
ColName(k) == schema[k].name

AliasesOf(k) ==
    IF "aliases" \in DOMAIN schema[k].props THEN schema[k].props.aliases ELSE <<>>

\* the schema items the renaming loop is through with
Scanned == IF pc = "rename_scan" THEN i - 1 ELSE Len(schema)

RenameDone == pc \in {"cast", "h_return", "validate", "done"}

RenameEntries == {j \in DOMAIN report_logs : report_logs[j].action = "Rename"}

RenameEntriesFor(c) == {j \in RenameEntries : report_logs[j].column = c}

\* a is the first alias of schema item k, in declared order, that the input holds
IsFirstPresent(k, a) ==
    \E n \in DOMAIN AliasesOf(k) :
        /\ AliasesOf(k)[n] = a
        /\ a \in DOMAIN df
        /\ \A m \in 1..(n - 1) : AliasesOf(k)[m] \notin DOMAIN df

HasPresentAlias(k) == \E n \in DOMAIN AliasesOf(k) : AliasesOf(k)[n] \in DOMAIN df

\* C1 (first alias wins): once the renaming loop is through with a schema column
\* that the input table lacks and one of whose aliases the table holds, the log
\* holds exactly one Rename entry for it, that entry names the first alias, in
\* declared order, that the table holds (so none names a later alias), and
\* right after the column's scan that alias is the pending rename to it.
C1_FirstAliasWins ==
    \A k \in 1..Scanned :
        (ColName(k) \notin DOMAIN df /\ HasPresentAlias(k)) =>
            /\ Cardinality(RenameEntriesFor(ColName(k))) = 1
            /\ \A j \in RenameEntriesFor(ColName(k)) :
                    IsFirstPresent(k, report_logs[j].alias)
            /\ (k = Scanned /\ pc \in {"rename_scan", "rename_apply"}) =>
                    \E a \in DOMAIN rename_map :
                        IsFirstPresent(k, a) /\ rename_map[a] = ColName(k)

\* harmonize is through, for a column the table lacks while holding its first
\* two aliases, and has logged its rename
C1_Witness ==
    /\ pc = "h_return"
    /\ \E k \in DOMAIN schema :
          /\ ColName(k) \notin DOMAIN df
          /\ Len(AliasesOf(k)) >= 2
          /\ AliasesOf(k)[1] \in DOMAIN df
          /\ AliasesOf(k)[2] \in DOMAIN df
          /\ RenameEntriesFor(ColName(k)) # {}

\* C2 (alias idempotence): a schema column the input table holds under its
\* canonical name is never the target of a pending rename and never has a Rename
\* entry, whatever aliases of it the table also holds.
C2_AliasIdempotence ==
    \A k \in DOMAIN schema :
        ColName(k) \in DOMAIN df =>
            /\ \A a \in DOMAIN rename_map : rename_map[a] # ColName(k)
            /\ RenameEntriesFor(ColName(k)) = {}

\* harmonize is through, for a column the table holds under its canonical name
\* and under one of its aliases
C2_Witness ==
    /\ pc = "h_return"
    /\ \E k \in DOMAIN schema :
          /\ ColName(k) \in DOMAIN df
          /\ \E n \in DOMAIN AliasesOf(k) :
                AliasesOf(k)[n] \in DOMAIN df /\ AliasesOf(k)[n] # ColName(k)

\* the columns of the input whose data the renamed table holds under another name
AppliedRenames ==
    {n \in DOMAIN df : \E c \in DOMAIN hdf : c # n /\ hdf[c] = df[n]}

\* C8 (one Rename entry per applied rename): after the batch rename the log
\* holds as many Rename entries as columns were renamed, and for each Rename
\* entry (column c, alias a) the input's column a is the renamed table's column c.
C8_OneEntryPerAppliedRename ==
    RenameDone =>
        /\ Cardinality(RenameEntries) = Cardinality(AppliedRenames)
        /\ \A j \in RenameEntries :
              /\ report_logs[j].column \in DOMAIN hdf
              /\ hdf[report_logs[j].column] = df[report_logs[j].alias]

\* C9 (canonical columns untouched): after the batch rename every schema column
\* the input table held under its canonical name is still there under that name,
\* with the same data.
C9_CanonicalUntouched ==
    RenameDone =>
        \A k \in DOMAIN schema :
            ColName(k) \in DOMAIN df =>
                /\ ColName(k) \in DOMAIN hdf
                /\ hdf[ColName(k)] = df[ColName(k)]

(***************************************************************************)
(* Properties of the casting step of harmonize and of the pipeline (Spec). *)
(***************************************************************************)
HarmonizeDone == pc \in {"h_return", "validate", "done"}

TypeStr(k) == IF "type" \in DOMAIN schema[k].props THEN schema[k].props.type ELSE "None"

Recognized(k) == TypeStr(k) \in {"string", "float", "integer", "date", "boolean"}

PresentAfterRename(k) == ColName(k) \in DOMAIN df \/ HasPresentAlias(k)

\* the input column that bears the name of schema item k after the renaming
SourceOf(k) ==
    IF ColName(k) \in DOMAIN df
    THEN ColName(k)
    ELSE CHOOSE a \in DOMAIN df : IsFirstPresent(k, a)

CastEntriesFor(c) ==
    {j \in DOMAIN report_logs :
        /\ report_logs[j].action \in {"Cast Fail", "Cast Success"}
        /\ report_logs[j].column = c}

NullRows(column) == {r \in DOMAIN column.vals : column.vals[r] = Null}

C4_CastNoOp ==
    HarmonizeDone =>
        \A k \in DOMAIN schema :
            (/\ PresentAfterRename(k)
             /\ \/ ~Recognized(k)
                \/ df[SourceOf(k)].dtype = type_map[TypeStr(k)]) =>
                /\ CastEntriesFor(ColName(k)) = {}
                /\ hdf[ColName(k)] = df[SourceOf(k)]

\* harmonize is through with a column already of its target type, and has logged
\* the cast of another column
C4_Witness ==
    /\ pc = "h_return"
    /\ \E k \in DOMAIN schema :
          /\ PresentAfterRename(k)
          /\ Recognized(k)
          /\ df[SourceOf(k)].dtype = type_map[TypeStr(k)]
          /\ CastEntriesFor(ColName(k)) = {}
    /\ \E j \in DOMAIN report_logs : report_logs[j].action = "Cast Fail"

\* C10 (harmonize establishes the type check): validating the table harmonize
\* returned never yields a Type finding for a schema column whose type is one of
\* string, float, integer, date, boolean.
C10_NoTypeFindingAfterHarmonize ==
    \A j \in DOMAIN errors :
        errors[j].check = "Type" =>
            \A k \in DOMAIN schema :
                ColName(k) = errors[j].variable => ~Recognized(k)

\* the pipeline is through with a column whose input type the validator would
\* have refused
C10_Witness ==
    /\ pc = "done"
    /\ \E k \in DOMAIN schema :
          /\ PresentAfterRename(k)
          /\ Recognized(k)
          /\ ColName(k) \in DOMAIN df_clean
          /\ df[SourceOf(k)].dtype \notin polars_dtypes[TypeStr(k)]

(***************************************************************************)
(* Properties of validate (SpecValidate).                                  *)
(***************************************************************************)
\* validate's loop is through with schema item k
Processed(k) == pc = "done" \/ (pc = "validate" /\ k < i)

FindingsFor(c) == {j \in DOMAIN errors : errors[j].variable = c}

\* low <= value <= high, a float being counted in halves
Inside(c, low, high) ==
    IF c.k = "flt"
    THEN 2 * low <= c.i /\ c.i <= 2 * high
    ELSE low <= c.i /\ c.i <= high

\* C5 (range inclusivity): for a present schema column with range [low, high]
\* that validate is through with, there is a Range finding iff some row holds a
\* value below low or above high, there is at most one, and its count is the
\* number of such rows; a value equal to low or to high is not one of them.
C5_RangeInclusivity ==
    \A k \in DOMAIN schema :
        (/\ Processed(k)
         /\ ColName(k) \in DOMAIN df_clean
         /\ "range" \in DOMAIN schema[k].props) =>
            LET column == df_clean[ColName(k)]
                low == schema[k].props.range[1]
                high == schema[k].props.range[2]
                outside == {r \in DOMAIN column.vals :
                               /\ column.vals[r] # Null
                               /\ ~Inside(column.vals[r], low, high)}
                found == {j \in FindingsFor(ColName(k)) : errors[j].check = "Range"}
            IN  /\ (found # {}) <=> (outside # {})
                /\ Cardinality(found) <= 1
                /\ \A j \in found : errors[j].count = Cardinality(outside)

\* validate is through with a column holding its lower bound in one row and a
\* value above its upper bound in another, and has counted one row
C5_Witness ==
    /\ pc = "done"
    /\ \E k \in DOMAIN schema :
          /\ ColName(k) \in DOMAIN df_clean
          /\ "range" \in DOMAIN schema[k].props
          /\ \E r1, r2 \in DOMAIN df_clean[ColName(k)].vals :
                /\ df_clean[ColName(k)].vals[r1] = IntV(schema[k].props.range[1])
                /\ df_clean[ColName(k)].vals[r2].k = "int"
                /\ df_clean[ColName(k)].vals[r2].i > schema[k].props.range[2]
          /\ \E j \in FindingsFor(ColName(k)) :
                errors[j].check = "Range" /\ errors[j].count = 1

\* C6 (missing column): a schema column absent from the validated table that
\* validate is through with has no finding when optional is true, and exactly
\* one when optional is false or unset: check Existence, description "Column not
\* found", examples "N/A"; so it has no finding of any other check.  The run goes
\* on: a column declared after it, once validate is through with it, has its
\* Type finding if its physical type is not one its type string accepts.
C6_MissingColumn ==
    \A k \in DOMAIN schema :
        (Processed(k) /\ ColName(k) \notin DOMAIN df_clean) =>
            /\ IF "optional" \in DOMAIN schema[k].props /\ schema[k].props.optional
               THEN FindingsFor(ColName(k)) = {}
               ELSE /\ Cardinality(FindingsFor(ColName(k))) = 1
                    /\ \A j \in FindingsFor(ColName(k)) :
                          /\ errors[j].check = "Existence"
                          /\ errors[j].description = "Column not found"
                          /\ errors[j].examples_na
            /\ \A n \in (k + 1)..Len(schema) :
                  (/\ Processed(n)
                   /\ ColName(n) \in DOMAIN df_clean
                   /\ Recognized(n)
                   /\ df_clean[ColName(n)].dtype \notin polars_dtypes[TypeStr(n)]) =>
                      \E j \in FindingsFor(ColName(n)) : errors[j].check = "Type"

\* validate is through: a missing optional column that declares rules has no
\* finding, and the column declared after it has been validated and has some
C6_Witness ==
    /\ pc = "done"
    /\ Len(schema) = 2
    /\ ColName(1) \notin DOMAIN df_clean
    /\ "optional" \in DOMAIN schema[1].props
    /\ schema[1].props.optional
    /\ "range" \in DOMAIN schema[1].props
    /\ FindingsFor(ColName(1)) = {}
    /\ ColName(2) \in DOMAIN df_clean
    /\ FindingsFor(ColName(2)) # {}

CheckRank(check) ==
    CASE check \in {"Existence", "Type"} -> 1
      [] check = "Range" -> 2
      [] check = "Allowed Values" -> 3
      [] check = "Forbidden Values" -> 4
      [] check = "Regex" -> 5
      [] OTHER -> 0

\* the declaration index of the column finding j is about
DeclIndex(j) == CHOOSE k \in DOMAIN schema : ColName(k) = errors[j].variable

\* C7 (finding order and uniqueness): the findings are strictly increasing in
\* (declaration index of the column, rank of the check in Existence/Type, Range,
\* Allowed Values, Forbidden Values, Regex).
C7_FindingOrder ==
    \A j1, j2 \in DOMAIN errors :
        j1 < j2 =>
            \/ DeclIndex(j1) < DeclIndex(j2)
            \/ /\ DeclIndex(j1) = DeclIndex(j2)
               /\ CheckRank(errors[j1].check) < CheckRank(errors[j2].check)

\* validate is through with two columns that each failed four checks
C7_Witness ==
    /\ pc = "done"
    /\ Len(schema) = 2
    /\ Cardinality(FindingsFor(ColName(1))) = 4
    /\ Cardinality(FindingsFor(ColName(2))) = 4

====
